---- MODULE Spec2Model ----
(***************************************************************************)
(* canary-context.py: a command-line client that browses the tags of a     *)
(* Canary historian, fetches their context and writes it to a file as      *)
(* CSV, text or JSON.                                                      *)
(*                                                                         *)
(* A text (a Python str, a file's content) is a sequence of symbols.  A    *)
(* symbol is one character, or a fixed literal of the program that is      *)
(* never split ("tagName", "TagName: ", the CSV line terminator "\r\n",    *)
(* a newline followed by k indentation steps "\n<k>").                     *)
(*                                                                         *)
(* A JSON value (what response.json() returns) is a pair <<tag, payload>>: *)
(*   <<"null", <<>>>>            None                                      *)
(*   <<"str", text>>             str                                       *)
(*   <<"arr", <<v1, ..., vn>>>>  list                                      *)
(*   <<"obj", <<<<k1, v1>>, ..., <<kn, vn>>>>>>  dict, in insertion order  *)
(***************************************************************************)
EXTENDS Integers, Sequences, FiniteSets, TLC

VARIABLES
    pc,      \* pc[p]: where instance p stands in main: "start", "got_tags" (get_tags
             \* returned), "got_data" (get_tag_context returned), "writing" (in
             \* a formatter, the file open), "done" (main returned) or "crashed"
             \* (an exception left main)
    tags,    \* tags[p]: what get_tags returned to main
    data,    \* data[p]: tag_context_data, what get_tag_context returned
    fmt,     \* fmt[p]: the output_format argument of main
    ofile,   \* ofile[p]: the output_file argument of main
    fs,      \* fs[f]: the file system, [exists, text] for each file name
    fh,      \* fh[p]: the open file object of p: [pos, pending, exc]
    reqs,    \* the requests sent to the server, in order
    out,     \* out[p]: the lines p printed
    called,  \* called[p]: the functions main of p called, in order
    crash,   \* crash[p]: the exception that left main and the call that raised it
    wlog     \* the open and write system calls on files, in order

vars == <<pc, tags, data, fmt, ofile, fs, fh, reqs, out, called, crash, wlog>>

Procs == DOMAIN pc

-----------------------------------------------------------------------------
(* Bounds of the model. *)

\* The longest tag list the browseTags response carries.
MaxTags == 2
\* The longest data array the getTagContext response carries.
MaxRecs == 2
\* The number of symbols the file object buffers before it writes them out.
BufLen == 40

-----------------------------------------------------------------------------
(* JSON values and the Python operations the program applies to them. *)

JNull == <<"null", <<>>>>
JStr(s) == <<"str", s>>
JArr(a) == <<"arr", a>>
JObj(kv) == <<"obj", kv>>
\* A variable main has not assigned yet.
Unset == <<"unset", <<>>>>

IsObj(v) == v[1] = "obj"
IsArr(v) == v[1] = "arr"
IsStr(v) == v[1] = "str"

\* k in d
HasKey(d, k) == \E i \in 1..Len(d[2]) : d[2][i][1] = k
\* d[k], for a key d holds
Item(d, k) == d[2][CHOOSE i \in 1..Len(d[2]) : d[2][i][1] = k][2]
\* d.get(k): None when the key is missing
DictGet(d, k) == IF HasKey(d, k) THEN Item(d, k) ELSE JNull
\* d.get(k, [])
DictGetList(d, k) == IF HasKey(d, k) THEN Item(d, k) ELSE JArr(<<>>)

\* `v is not None`: the test that lets an empty list through.
TruthyNotNone(v) == v[1] # "null"
\* bool(v), as `if tags:` and `if tag_context_data:` evaluate it
Truthy(v) == v[1] \in {"str", "arr", "obj"} /\ v[2] # <<>>

\* The sequences over S of length at most n.
SeqUpTo(S, n) == UNION {[1..k -> S] : k \in 0..n}

RECURSIVE Concat(_)
\* The concatenation of a sequence of texts.
Concat(ss) == IF ss = <<>> THEN <<>> ELSE Head(ss) \o Concat(Tail(ss))

-----------------------------------------------------------------------------
(* save_to_csv: csv.DictWriter with the excel dialect (delimiter ",",      *)
(* quote character '"', line terminator "\r\n", minimal quoting), on a     *)
(* file opened with newline="" so the terminator is written as it is.      *)

CsvFieldNames ==
    << <<"tagName">>, <<"historianItemId">>, <<"sourceItemId">>,
       <<"oldestTimeStamp">>, <<"latestTimeStamp">> >>

ContextKeys ==
    <<"historianItemId", "sourceItemId", "oldestTimeStamp", "latestTimeStamp">>

\* The text the writer makes of a value: "" for None, the string itself for a
\* str, and str(v) for anything else (one opaque symbol here).
CsvCell(v) ==
    CASE v[1] = "null" -> <<>>
      [] v[1] = "str" -> v[2]
      [] OTHER -> <<"<repr>">>

\* Minimal quoting: a field is quoted when it holds the delimiter, the quote
\* character or a character of the line terminator.
CsvNeedsQuote(s) == \E i \in 1..Len(s) : s[i] \in {",", "\"", "\r", "\n"}

RECURSIVE CsvDoubleQuotes(_)
CsvDoubleQuotes(s) ==
    IF s = <<>> THEN <<>>
    ELSE (IF Head(s) = "\"" THEN <<"\"", "\"">> ELSE <<Head(s)>>)
             \o CsvDoubleQuotes(Tail(s))

CsvField(s) ==
    IF CsvNeedsQuote(s) THEN <<"\"">> \o CsvDoubleQuotes(s) \o <<"\"">> ELSE s

RECURSIVE CsvJoin(_)
CsvJoin(cells) ==
    IF Len(cells) = 1 THEN CsvField(cells[1])
    ELSE CsvField(Head(cells)) \o <<",">> \o CsvJoin(Tail(cells))

\* writer.writerow
CsvRow(cells) == CsvJoin(cells) \o <<"\r\n">>

CsvHeaderMutNone == <<>>
\* writer.writeheader()
CsvHeader == CsvRow(CsvFieldNames)

\* The cells of the row of one item whose tagContext is a dict.
CsvItemCells(item) ==
    <<CsvCell(Item(item, "tagName"))>>
        \o [i \in 1..4 |-> CsvCell(DictGet(Item(item, "tagContext"), ContextKeys[i]))]

\* What looking up the keys of one item raises: item["tagContext"] first, then
\* item["tagName"], then tag_context.get on what tagContext holds.
ItemExc(item) ==
    IF ~HasKey(item, "tagContext") THEN "KeyError"
    ELSE IF ~HasKey(item, "tagName") THEN "KeyError"
    ELSE IF ~IsObj(Item(item, "tagContext")) THEN "AttributeError"
    ELSE "none"

RECURSIVE CsvRows(_)
\* The loop over data: the rows written, and the exception that ended it.
CsvRows(items) ==
    IF items = <<>> THEN [text |-> <<>>, exc |-> "none"]
    ELSE IF ItemExc(Head(items)) # "none"
         THEN [text |-> <<>>, exc |-> ItemExc(Head(items))]
         ELSE LET rest == CsvRows(Tail(items))
              IN  [text |-> CsvRow(CsvItemCells(Head(items))) \o rest.text,
                   exc |-> rest.exc]

\* What save_to_csv writes to the file it opened, and the exception it raises.
save_to_csv(d) ==
    LET rows == CsvRows(d[2])
    IN  [text |-> CsvHeader \o rows.text, exc |-> rows.exc]

-----------------------------------------------------------------------------
(* save_to_txt: one block of five labelled lines and a blank line per item. *)

TxtLabels ==
    <<"  HistorianItemId: ", "  SourceItemId: ",
      "  OldestTimeStamp: ", "  LatestTimeStamp: ">>

\* The text an f-string makes of a value: "None" for None.
TxtStr(v) ==
    CASE v[1] = "null" -> <<"N", "o", "n", "e">>
      [] v[1] = "str" -> v[2]
      [] OTHER -> <<"<repr>">>

TxtContextLines(ctx) ==
    Concat([i \in 1..4 |-> <<TxtLabels[i]>> \o TxtStr(DictGet(ctx, ContextKeys[i])) \o <<"\n">>])

RECURSIVE TxtBlocks(_)
\* The loop over data.  The TagName line of an item is written before its
\* tagContext is looked up.
TxtBlocks(items) ==
    IF items = <<>> THEN [text |-> <<>>, exc |-> "none"]
    ELSE LET item == Head(items)
         IN  IF ~HasKey(item, "tagName") THEN [text |-> <<>>, exc |-> "KeyError"]
             ELSE LET first == <<"TagName: ">> \o TxtStr(Item(item, "tagName")) \o <<"\n">>
                  IN  IF ~HasKey(item, "tagContext")
                      THEN [text |-> first, exc |-> "KeyError"]
                      ELSE IF ~IsObj(Item(item, "tagContext"))
                      THEN [text |-> first, exc |-> "AttributeError"]
                      ELSE LET rest == TxtBlocks(Tail(items))
                           IN  [text |-> first
                                          \o TxtContextLines(Item(item, "tagContext"))
                                          \o <<"\n">> \o rest.text,
                                exc |-> rest.exc]

save_to_txt(d) == TxtBlocks(d[2])

-----------------------------------------------------------------------------
(* save_to_json: json.dump(data, file, indent=4).                          *)

\* A newline followed by k indentation steps of four spaces.
NlIndent(k) ==
    CASE k = 0 -> "\n"
      [] k = 1 -> "\n    "
      [] k = 2 -> "\n        "
      [] k = 3 -> "\n            "
      [] OTHER -> "\n                "

JsonEscapeMutNone(s) == s
RECURSIVE JsonEscape(_)
\* The escapes of a string literal.
JsonEscape(s) ==
    IF s = <<>> THEN <<>>
    ELSE (CASE Head(s) = "\"" -> <<"\\", "\"">>
            [] Head(s) = "\\" -> <<"\\", "\\">>
            [] Head(s) = "\n" -> <<"\\", "n">>
            [] Head(s) = "\r" -> <<"\\", "r">>
            [] OTHER -> <<Head(s)>>)
         \o JsonEscape(Tail(s))

JsonString(s) == <<"\"">> \o JsonEscape(s) \o <<"\"">>

RECURSIVE JsonDump(_, _), JsonElems(_, _), JsonMembers(_, _)
\* The items of a list, each on a line of its own at level k.
JsonElems(a, k) ==
    IF Len(a) = 1 THEN JsonDump(a[1], k)
    ELSE JsonDump(Head(a), k) \o <<",", NlIndent(k)>> \o JsonElems(Tail(a), k)

\* The members of a dict, each on a line of its own at level k.
JsonMembers(kv, k) ==
    LET m == JsonString(<<kv[1][1]>>) \o <<": ">> \o JsonDump(kv[1][2], k)
    IN  IF Len(kv) = 1 THEN m
        ELSE m \o <<",", NlIndent(k)>> \o JsonMembers(Tail(kv), k)

\* The text of value v at indentation level k.
JsonDump(v, k) ==
    CASE v[1] = "null" -> <<"null">>
      [] v[1] = "str" -> JsonString(v[2])
      [] v[1] = "arr" ->
            IF v[2] = <<>> THEN <<"[", "]">>
            ELSE <<"[", NlIndent(k + 1)>> \o JsonElems(v[2], k + 1)
                     \o <<NlIndent(k), "]">>
      [] v[1] = "obj" ->
            IF v[2] = <<>> THEN <<"{", "}">>
            ELSE <<"{", NlIndent(k + 1)>> \o JsonMembers(v[2], k + 1)
                     \o <<NlIndent(k), "}">>

save_to_json(d) == [text |-> JsonDump(d, 0), exc |-> "none"]

-----------------------------------------------------------------------------
(* What the server and the network can answer.                             *)

TagNames == {<<"T1">>, <<"T2">>}

\* A context with every field, one with a missing, a null and an empty field
\* and a field that needs quoting, and one with an embedded newline.
CtxFull ==
    JObj(<< <<"historianItemId", JStr(<<"h">>)>>, <<"sourceItemId", JStr(<<"s">>)>>,
            <<"oldestTimeStamp", JStr(<<"o">>)>>, <<"latestTimeStamp", JStr(<<"l">>)>> >>)
CtxPartial ==
    JObj(<< <<"historianItemId", JNull>>, <<"oldestTimeStamp", JStr(<<>>)>>,
            <<"latestTimeStamp", JStr(<<"b", ",", "\"">>)>> >>)
CtxNewline ==
    JObj(<< <<"sourceItemId", JStr(<<"c", "\n", "d">>)>> >>)

\* The tagContext of a record: Unset stands for a record without the key.
Contexts == {Unset, JNull, JObj(<<>>), CtxFull, CtxPartial, CtxNewline}

Record(name, ctx) ==
    JObj(<< <<"tagName", JStr(name)>> >>
         \o (IF ctx = Unset THEN <<>> ELSE << <<"tagContext", ctx>> >>))

\* Every shape of record under the first name, and two under the second.
Records ==
    {Record(<<"T1">>, c) : c \in Contexts}
        \cup {Record(<<"T2">>, c) : c \in {CtxFull, CtxPartial}}

\* The body of a 2xx answer that is JSON: an object with or without the
\* field, the field null, or a body that is no object.
Bodies(key, lists) ==
    {JObj(<<>>), JObj(<< <<key, JNull>> >>), JArr(<<>>)}
        \cup {JObj(<< <<key, JArr(l)>> >>) : l \in lists}

\* What requests.request and raise_for_status make of an exchange: a
\* RequestException (refused, timed out, TLS failure, status 4xx or 5xx), a 2xx
\* answer whose body is not JSON, or a 2xx answer with a JSON body.
Responses(key, lists) ==
    {[kind |-> "error", body |-> JNull], [kind |-> "notjson", body |-> JNull]}
        \cup {[kind |-> "json", body |-> b] : b \in Bodies(key, lists)}

BrowseResponses ==
    Responses("tags", {[i \in DOMAIN l |-> JStr(l[i])] : l \in SeqUpTo(TagNames, MaxTags)})

ContextResponses == Responses("data", SeqUpTo(Records, MaxRecs))

Formats == {"csv", "txt", "json", "xml"}
Files == {"f1", "f2"}

\* f1 does not exist, f2 holds an earlier output.
InitFs ==
    [f \in Files |-> IF f = "f1" THEN [exists |-> FALSE, text |-> <<>>]
                     ELSE [exists |-> TRUE, text |-> <<"old">>]]

-----------------------------------------------------------------------------
(* The two clients.                                                        *)

\* _request_call: None and a printed line for a RequestException, the answer
\* otherwise.
_request_call(resp) ==
    IF resp.kind = "error"
    THEN [none |-> TRUE, response |-> resp, printed |-> <<"Error during request">>]
    ELSE [none |-> FALSE, response |-> resp, printed |-> <<>>]

\* response.json().get(key, []): json() raises on a body that is not JSON,
\* and a body that is no dict has no get.
JsonGet(resp, key) ==
    IF resp.kind = "notjson" THEN [ret |-> Unset, exc |-> "JSONDecodeError"]
    ELSE IF ~IsObj(resp.body) THEN [ret |-> Unset, exc |-> "AttributeError"]
    ELSE [ret |-> DictGetList(resp.body, key), exc |-> "none"]

get_tags(resp) ==
    LET r == _request_call(resp)
    IN  IF ~r.none
        THEN [ret |-> JsonGet(r.response, "tags").ret,
              exc |-> JsonGet(r.response, "tags").exc, printed |-> r.printed]
        ELSE [ret |-> JArr(<<>>), exc |-> "none", printed |-> r.printed]

get_tag_context(resp) ==
    LET r == _request_call(resp)
    IN  IF ~r.none
        THEN [ret |-> JsonGet(r.response, "data").ret,
              exc |-> JsonGet(r.response, "data").exc, printed |-> r.printed]
        ELSE [ret |-> JArr(<<>>), exc |-> "none", printed |-> r.printed]

\* The request get_tags sends.
BrowseRequest(p) == [proc |-> p, endpoint |-> "browseTags", tags |-> Unset]

ContextRequestMutFirstTag(p, t) ==
    [proc |-> p, endpoint |-> "getTagContext", tags |-> JArr(<<t[2][1]>>)]
\* The request get_tag_context sends: its body carries the tags it was given.
ContextRequest(p, t) == [proc |-> p, endpoint |-> "getTagContext", tags |-> t]

-----------------------------------------------------------------------------
(* main.                                                                   *)

MainHasTagsMutNotNone(p) == TruthyNotNone(tags[p])
\* if tags:
MainHasTags(p) == Truthy(tags[p])

MainHasDataMutNotNone(p) == TruthyNotNone(data[p])
\* if tag_context_data:
MainHasData(p) == Truthy(data[p])

\* The formatter main picks for a format, "none" when no branch matches.
Formatter(f) ==
    CASE f = "csv" -> "save_to_csv"
      [] f = "txt" -> "save_to_txt"
      [] f = "json" -> "save_to_json"
      [] OTHER -> "none"

\* What the formatter of p writes, and the exception it raises.
Rendered(p) ==
    CASE fmt[p] = "csv" -> save_to_csv(data[p])
      [] fmt[p] = "txt" -> save_to_txt(data[p])
      [] fmt[p] = "json" -> save_to_json(data[p])

Closed == [pos |-> 0, pending |-> <<>>, exc |-> "none"]
NoCrash == [exc |-> "none", raised_in |-> "none"]

OpenedTextMutAppend(old) == old
\* open(filename, mode="w") creates the file or truncates it.
OpenedText(old) == <<>>

Min(a, b) == IF a < b THEN a ELSE b

\* The text of a file after `chunk` is written at offset pos: a write past the
\* end leaves a hole of zero bytes, and nothing after the chunk is removed.
WriteAt(text, pos, chunk) ==
    LET n == IF Len(text) > pos + Len(chunk) THEN Len(text) ELSE pos + Len(chunk)
    IN  [i \in 1..n |->
            IF i > pos /\ i <= pos + Len(chunk) THEN chunk[i - pos]
            ELSE IF i <= Len(text) THEN text[i]
            ELSE "\\0"]

GetTags(p) ==
    /\ pc[p] = "start"
    /\ \E resp \in BrowseResponses :
          LET r == get_tags(resp)
          IN  /\ reqs' = Append(reqs, BrowseRequest(p))
              /\ called' = [called EXCEPT ![p] = Append(@, "get_tags")]
              /\ out' = [out EXCEPT ![p] = @ \o r.printed]
              /\ IF r.exc = "none"
                 THEN /\ tags' = [tags EXCEPT ![p] = r.ret]
                      /\ pc' = [pc EXCEPT ![p] = "got_tags"]
                      /\ crash' = crash
                 ELSE /\ tags' = tags
                      /\ pc' = [pc EXCEPT ![p] = "crashed"]
                      /\ crash' = [crash EXCEPT ![p] =
                                       [exc |-> r.exc, raised_in |-> "get_tags"]]
    /\ UNCHANGED <<data, fmt, ofile, fs, fh, wlog>>

NoTags(p) ==
    /\ pc[p] = "got_tags"
    /\ ~MainHasTags(p)
    /\ out' = [out EXCEPT ![p] = Append(@, "No tags found.")]
    /\ pc' = [pc EXCEPT ![p] = "done"]
    /\ UNCHANGED <<tags, data, fmt, ofile, fs, fh, reqs, called, crash, wlog>>

GetTagContext(p) ==
    /\ pc[p] = "got_tags"
    /\ MainHasTags(p)
    /\ \E resp \in ContextResponses :
          LET r == get_tag_context(resp)
          IN  /\ reqs' = Append(reqs, ContextRequest(p, tags[p]))
              /\ called' = [called EXCEPT ![p] = Append(@, "get_tag_context")]
              /\ out' = [out EXCEPT ![p] = @ \o r.printed]
              /\ IF r.exc = "none"
                 THEN /\ data' = [data EXCEPT ![p] = r.ret]
                      /\ pc' = [pc EXCEPT ![p] = "got_data"]
                      /\ crash' = crash
                 ELSE /\ data' = data
                      /\ pc' = [pc EXCEPT ![p] = "crashed"]
                      /\ crash' = [crash EXCEPT ![p] =
                                       [exc |-> r.exc, raised_in |-> "get_tag_context"]]
    /\ UNCHANGED <<tags, fmt, ofile, fs, fh, wlog>>

NoData(p) ==
    /\ pc[p] = "got_data"
    /\ ~MainHasData(p)
    /\ out' = [out EXCEPT ![p] = Append(@, "No data returned in the tag context.")]
    /\ pc' = [pc EXCEPT ![p] = "done"]
    /\ UNCHANGED <<tags, data, fmt, ofile, fs, fh, reqs, called, crash, wlog>>

\* The formatter is called and opens the file; what it will write is settled
\* by data alone.
OpenFile(p) ==
    /\ pc[p] = "got_data"
    /\ MainHasData(p)
    /\ Formatter(fmt[p]) # "none"
    /\ called' = [called EXCEPT ![p] = Append(@, Formatter(fmt[p]))]
    /\ fs' = [fs EXCEPT ![ofile[p]] =
                 [exists |-> TRUE, text |-> OpenedText(fs[ofile[p]].text)]]
    /\ fh' = [fh EXCEPT ![p] =
                 [pos |-> 0, pending |-> Rendered(p).text, exc |-> Rendered(p).exc]]
    /\ wlog' = Append(wlog, <<p, "open">>)
    /\ pc' = [pc EXCEPT ![p] = "writing"]
    /\ UNCHANGED <<tags, data, fmt, ofile, reqs, out, crash>>

\* The formatter is called and open raises (no permission, no such directory).
OpenFails(p) ==
    /\ pc[p] = "got_data"
    /\ MainHasData(p)
    /\ Formatter(fmt[p]) # "none"
    /\ called' = [called EXCEPT ![p] = Append(@, Formatter(fmt[p]))]
    /\ crash' = [crash EXCEPT ![p] =
                    [exc |-> "OSError", raised_in |-> Formatter(fmt[p])]]
    /\ pc' = [pc EXCEPT ![p] = "crashed"]
    /\ UNCHANGED <<tags, data, fmt, ofile, fs, fh, reqs, out, wlog>>

\* The file object writes out the next BufLen symbols it holds, at its offset.
Flush(p) ==
    /\ pc[p] = "writing"
    /\ fh[p].pending # <<>>
    /\ LET n == Min(BufLen, Len(fh[p].pending))
           chunk == SubSeq(fh[p].pending, 1, n)
       IN  /\ fs' = [fs EXCEPT ![ofile[p]].text = WriteAt(@, fh[p].pos, chunk)]
           /\ fh' = [fh EXCEPT ![p].pos = @ + n,
                               ![p].pending = SubSeq(@, n + 1, Len(@))]
    /\ wlog' = Append(wlog, <<p, "write">>)
    /\ UNCHANGED <<pc, tags, data, fmt, ofile, reqs, out, called, crash>>

\* The with block ends: the formatter returns and main prints the success
\* line, or the exception of the formatter leaves main.
CloseFile(p) ==
    /\ pc[p] = "writing"
    /\ fh[p].pending = <<>>
    /\ IF fh[p].exc = "none"
       THEN /\ out' = [out EXCEPT ![p] = Append(@, "Data saved")]
            /\ pc' = [pc EXCEPT ![p] = "done"]
            /\ crash' = crash
       ELSE /\ out' = out
            /\ pc' = [pc EXCEPT ![p] = "crashed"]
            /\ crash' = [crash EXCEPT ![p] =
                            [exc |-> fh[p].exc, raised_in |-> Formatter(fmt[p])]]
    /\ UNCHANGED <<tags, data, fmt, ofile, fs, fh, reqs, called, wlog>>

\* No branch of the if/elif chain matches the format: main falls through to
\* the print that follows the chain.
NoFormatter(p) ==
    /\ pc[p] = "got_data"
    /\ MainHasData(p)
    /\ Formatter(fmt[p]) = "none"
    /\ out' = [out EXCEPT ![p] = Append(@, "Data saved")]
    /\ pc' = [pc EXCEPT ![p] = "done"]
    /\ UNCHANGED <<tags, data, fmt, ofile, fs, fh, reqs, called, crash, wlog>>

\* One instance, called with any format and either file.
Init ==
    /\ pc = [p \in {1} |-> "start"]
    /\ tags = [p \in {1} |-> Unset]
    /\ data = [p \in {1} |-> Unset]
    /\ fmt \in [{1} -> Formats]
    /\ ofile \in [{1} -> Files]
    /\ fs = InitFs
    /\ fh = [p \in {1} |-> Closed]
    /\ reqs = <<>>
    /\ out = [p \in {1} |-> <<>>]
    /\ called = [p \in {1} |-> <<>>]
    /\ crash = [p \in {1} |-> NoCrash]
    /\ wlog = <<>>

Next ==
    \/ \E p \in Procs : GetTags(p)
    \/ \E p \in Procs : NoTags(p)
    \/ \E p \in Procs : GetTagContext(p)
    \/ \E p \in Procs : NoData(p)
    \/ \E p \in Procs : OpenFile(p)
    \/ \E p \in Procs : OpenFails(p)
    \/ \E p \in Procs : Flush(p)
    \/ \E p \in Procs : CloseFile(p)
    \/ \E p \in Procs : NoFormatter(p)

Spec == Init /\ [][Next]_vars

-----------------------------------------------------------------------------
(* Reading the files back: json.load, csv.DictReader, and a reader of the  *)
(* text blocks.  The claims about the written files are stated with them.  *)

JsonWs == {NlIndent(k) : k \in 0..4}
ParseFail == [ok |-> FALSE, v |-> JNull, rest |-> <<>>]
ParseError == <<"error", <<>>>>

RECURSIVE SkipWs(_)
SkipWs(t) == IF t # <<>> /\ Head(t) \in JsonWs THEN SkipWs(Tail(t)) ELSE t

RECURSIVE ParseString(_, _)
\* The string literal whose opening quote was read; acc is what it holds so
\* far.  A raw control character ends the parse, as json.load does.
ParseString(t, acc) ==
    IF t = <<>> THEN ParseFail
    ELSE IF Head(t) = "\"" THEN [ok |-> TRUE, v |-> JStr(acc), rest |-> Tail(t)]
    ELSE IF Head(t) \in {"\n", "\r"} THEN ParseFail
    ELSE IF Head(t) = "\\"
         THEN IF Len(t) < 2 THEN ParseFail
              ELSE IF t[2] = "\"" THEN ParseString(Tail(Tail(t)), Append(acc, "\""))
              ELSE IF t[2] = "\\" THEN ParseString(Tail(Tail(t)), Append(acc, "\\"))
              ELSE IF t[2] = "n" THEN ParseString(Tail(Tail(t)), Append(acc, "\n"))
              ELSE IF t[2] = "r" THEN ParseString(Tail(Tail(t)), Append(acc, "\r"))
              ELSE ParseFail
    ELSE ParseString(Tail(t), Append(acc, Head(t)))

RECURSIVE ParseValue(_), ParseElems(_, _), ParseMembers(_, _)
ParseValue(t) ==
    LET u == SkipWs(t)
    IN  IF u = <<>> THEN ParseFail
        ELSE IF Head(u) = "null" THEN [ok |-> TRUE, v |-> JNull, rest |-> Tail(u)]
        ELSE IF Head(u) = "\"" THEN ParseString(Tail(u), <<>>)
        ELSE IF Head(u) = "["
             THEN LET w == SkipWs(Tail(u))
                  IN  IF w # <<>> /\ Head(w) = "]"
                      THEN [ok |-> TRUE, v |-> JArr(<<>>), rest |-> Tail(w)]
                      ELSE ParseElems(w, <<>>)
        ELSE IF Head(u) = "{"
             THEN LET w == SkipWs(Tail(u))
                  IN  IF w # <<>> /\ Head(w) = "}"
                      THEN [ok |-> TRUE, v |-> JObj(<<>>), rest |-> Tail(w)]
                      ELSE ParseMembers(w, <<>>)
        ELSE ParseFail

ParseElems(t, acc) ==
    LET r == ParseValue(t)
        u == SkipWs(r.rest)
    IN  IF ~r.ok \/ u = <<>> THEN ParseFail
        ELSE IF Head(u) = "," THEN ParseElems(Tail(u), Append(acc, r.v))
        ELSE IF Head(u) = "]"
             THEN [ok |-> TRUE, v |-> JArr(Append(acc, r.v)), rest |-> Tail(u)]
        ELSE ParseFail

\* A key is a string literal of one symbol.
ParseMembers(t, acc) ==
    LET u == SkipWs(t)
    IN  IF u = <<>> \/ Head(u) # "\"" THEN ParseFail
        ELSE LET k == ParseString(Tail(u), <<>>)
                 c == SkipWs(k.rest)
             IN  IF ~k.ok \/ Len(k.v[2]) # 1 \/ c = <<>> \/ Head(c) # ": "
                 THEN ParseFail
                 ELSE LET r == ParseValue(Tail(c))
                          w == SkipWs(r.rest)
                          kv == Append(acc, <<k.v[2][1], r.v>>)
                      IN  IF ~r.ok \/ w = <<>> THEN ParseFail
                          ELSE IF Head(w) = "," THEN ParseMembers(Tail(w), kv)
                          ELSE IF Head(w) = "}"
                               THEN [ok |-> TRUE, v |-> JObj(kv), rest |-> Tail(w)]
                          ELSE ParseFail

\* json.load of a whole file.
ParseJson(t) ==
    LET r == ParseValue(t)
    IN  IF r.ok /\ SkipWs(r.rest) = <<>> THEN r.v ELSE ParseError

RECURSIVE CsvScan(_, _, _, _, _)
\* The csv reader: st is "start" at the start of a field, "plain" in an
\* unquoted field, "quoted" in a quoted one and "quote" after a quote met in
\* a quoted field.
CsvScan(t, st, field, row, rows) ==
    IF t = <<>>
    THEN IF st = "start" /\ row = <<>> THEN rows
         ELSE Append(rows, Append(row, field))
    ELSE LET c == Head(t)
             r == Tail(t)
         IN  IF st = "quoted"
             THEN IF c = "\"" THEN CsvScan(r, "quote", field, row, rows)
                  ELSE CsvScan(r, "quoted", Append(field, c), row, rows)
             ELSE IF st = "quote" /\ c = "\""
             THEN CsvScan(r, "quoted", Append(field, c), row, rows)
             ELSE IF c = ","
             THEN CsvScan(r, "start", <<>>, Append(row, field), rows)
             ELSE IF c \in {"\r\n", "\n", "\r"}
             THEN CsvScan(r, "start", <<>>, <<>>, Append(rows, Append(row, field)))
             ELSE IF st = "start" /\ c = "\""
             THEN CsvScan(r, "quoted", field, row, rows)
             ELSE CsvScan(r, "plain", Append(field, c), row, rows)

\* The rows of a CSV file, each a sequence of cells.
ReadCsv(t) == CsvScan(t, "start", <<>>, <<>>, <<>>)

\* The first line of t without its newline, and what follows it.
TakeLine(t) ==
    IF \E i \in 1..Len(t) : t[i] = "\n"
    THEN LET n == CHOOSE i \in 1..Len(t) :
                      t[i] = "\n" /\ \A j \in 1..(i - 1) : t[j] # "\n"
         IN  [ok |-> TRUE, line |-> SubSeq(t, 1, n - 1), rest |-> SubSeq(t, n + 1, Len(t))]
    ELSE [ok |-> FALSE, line |-> <<>>, rest |-> <<>>]

RECURSIVE TxtFields(_, _, _)
\* The values of the next labelled lines, labels[i] for i from 1.
TxtFields(t, labels, acc) ==
    IF labels = <<>> THEN [ok |-> TRUE, vals |-> acc, rest |-> t]
    ELSE LET l == TakeLine(t)
         IN  IF ~l.ok \/ l.line = <<>> \/ Head(l.line) # Head(labels)
             THEN [ok |-> FALSE, vals |-> <<>>, rest |-> <<>>]
             ELSE TxtFields(l.rest, Tail(labels), Append(acc, Tail(l.line)))

RECURSIVE TxtScan(_, _)
\* The blocks of a text file, each the five values of one record; the reader
\* gives up on a line that does not carry the label it expects.
TxtScan(t, acc) ==
    IF t = <<>> THEN acc
    ELSE LET b == TxtFields(t, <<"TagName: ">> \o TxtLabels, <<>>)
             e == TakeLine(b.rest)
         IN  IF ~b.ok \/ ~e.ok \/ e.line # <<>> THEN <<ParseError>>
             ELSE TxtScan(e.rest, Append(acc, b.vals))

ReadTxt(t) == TxtScan(t, <<>>)

\* The text of a field with absent, null and "" taken as the same value.
FieldText(v) == IF IsStr(v) THEN v[2] ELSE <<>>

\* The (tagName, historianItemId, sourceItemId, oldestTimeStamp,
\* latestTimeStamp) tuple of a record of the data array.
TupleOf(item) ==
    LET ctx == IF IsObj(item) /\ HasKey(item, "tagContext") /\ IsObj(Item(item, "tagContext"))
               THEN Item(item, "tagContext") ELSE JObj(<<>>)
    IN  <<FieldText(IF IsObj(item) THEN DictGet(item, "tagName") ELSE JNull)>>
            \o [i \in 1..4 |-> FieldText(DictGet(ctx, ContextKeys[i]))]

\* The set of tuples of a data array.
Tuples(d) == IF IsArr(d) THEN {TupleOf(d[2][i]) : i \in 1..Len(d[2])} ELSE {ParseError}

\* The set of tuples read back from a file written in format f.
ReadBack(f, t) ==
    CASE f = "json" -> Tuples(ParseJson(t))
      [] f = "csv" ->
            LET rows == ReadCsv(t)
            IN  IF rows = <<>> \/ rows[1] # CsvFieldNames THEN {ParseError}
                ELSE {rows[i] : i \in 2..Len(rows)}
      [] f = "txt" -> {ReadTxt(t)[i] : i \in 1..Len(ReadTxt(t))}

\* The number of lines of a text: its line breaks, and one more for a last
\* line that does not end with one.
LineCount(t) ==
    Cardinality({i \in 1..Len(t) : t[i] \in {"\r\n", "\n", "\r"}})
        + (IF t # <<>> /\ t[Len(t)] \notin {"\r\n", "\n", "\r"} THEN 1 ELSE 0)

-----------------------------------------------------------------------------
(* Two instances in their write phase: both have their data and are about  *)
(* to call a formatter, on the same file or on different ones.             *)

RaceData == {JArr(l) : l \in SeqUpTo({Record(<<"T1">>, CtxFull)}, MaxRecs) \ {<<>>}}

InitRace ==
    /\ pc = [p \in {1, 2} |-> "got_data"]
    /\ tags = [p \in {1, 2} |-> JArr(<<JStr(<<"T1">>)>>)]
    /\ data \in [{1, 2} -> RaceData]
    /\ fmt \in [{1, 2} -> {"csv", "txt", "json"}]
    /\ ofile \in [{1, 2} -> Files]
    /\ fs = InitFs
    /\ fh = [p \in {1, 2} |-> Closed]
    /\ reqs = <<BrowseRequest(1), ContextRequest(1, tags[1]),
                BrowseRequest(2), ContextRequest(2, tags[2])>>
    /\ out = [p \in {1, 2} |-> <<>>]
    /\ called = [p \in {1, 2} |-> <<"get_tags", "get_tag_context">>]
    /\ crash = [p \in {1, 2} |-> NoCrash]
    /\ wlog = <<>>

NextRace ==
    \/ \E p \in Procs : OpenFile(p)
    \/ \E p \in Procs : Flush(p)
    \/ \E p \in Procs : CloseFile(p)

SpecRace == InitRace /\ [][NextRace]_vars

-----------------------------------------------------------------------------
(* What the claims speak of.                                               *)

Formatters == {"save_to_csv", "save_to_txt", "save_to_json"}

Called(p, f) == \E i \in 1..Len(called[p]) : called[p][i] = f
FormatterCalled(p) == \E f \in Formatters : Called(p, f)
Printed(p, line) == \E i \in 1..Len(out[p]) : out[p][i] = line
Sent(p, e) == \E i \in 1..Len(reqs) : reqs[i].proc = p /\ reqs[i].endpoint = e
\* The output file of p is as it was before the run.
Untouched(p) == fs[ofile[p]] = InitFs[ofile[p]]
\* main of p returned after its formatter returned.
Saved(p) == pc[p] = "done" /\ FormatterCalled(p)
StatusLines == {"No tags found.", "No data returned in the tag context.", "Data saved"}

\* C1: in a run where get_tags returned an empty list, get_tag_context is not
\* called and no getTagContext request is sent, no formatter is called and
\* the output file is neither created nor modified, the run does not leave
\* its no-tags branch, and once main has returned it has printed
\* "No tags found." and no other status line.
C1_EmptyTagsStopsRun ==
    \A p \in Procs :
        (pc[p] # "start" /\ tags[p] = JArr(<<>>)) =>
            /\ ~Called(p, "get_tag_context")
            /\ ~Sent(p, "getTagContext")
            /\ ~FormatterCalled(p)
            /\ Untouched(p)
            /\ pc[p] \in {"got_tags", "done"}
            /\ pc[p] = "done" =>
                   /\ Printed(p, "No tags found.")
                   /\ \A l \in StatusLines \ {"No tags found."} : ~Printed(p, l)

\* C1 witness: a run that ended after get_tags returned an empty list.
C1_Witness ==
    \E p \in Procs :
        pc[p] = "done" /\ tags[p] = JArr(<<>>) /\ Printed(p, "No tags found.")

\* C2: in a run where get_tags returned a non-empty list and get_tag_context
\* an empty one, no formatter is called, the output file is neither created
\* nor modified, and once main has returned it has printed
\* "No data returned in the tag context." and not the success line.
C2_EmptyDataWritesNothing ==
    \A p \in Procs :
        (Truthy(tags[p]) /\ data[p] = JArr(<<>>)) =>
            /\ ~FormatterCalled(p)
            /\ Untouched(p)
            /\ pc[p] \in {"got_data", "done"}
            /\ pc[p] = "done" =>
                   /\ Printed(p, "No data returned in the tag context.")
                   /\ ~Printed(p, "Data saved")
                   /\ ~Printed(p, "No tags found.")

\* C2 witness: a run that ended with tags found and an empty data list.
C2_Witness ==
    \E p \in Procs :
        /\ pc[p] = "done" /\ Truthy(tags[p]) /\ data[p] = JArr(<<>>)
        /\ Printed(p, "No data returned in the tag context.")

\* C3 (as claimed): no failure of a server call, in whatever way the call
\* fails to yield usable data, leaves main as an exception: no exception is
\* raised in get_tags or in get_tag_context.
C3_NoExceptionFromServerCall ==
    \A p \in Procs : crash[p].raised_in \notin {"get_tags", "get_tag_context"}

\* C4 (as claimed): for records that carry a tagName, no formatter fails
\* because a nested context field, or the context object that holds them, is
\* absent: no KeyError or AttributeError is raised in a formatter.
C4_MissingContextNeverFails ==
    \A p \in Procs :
        ~(crash[p].raised_in \in Formatters /\ crash[p].exc \in {"KeyError", "AttributeError"})

\* C5 (as claimed): the file a formatter wrote reads back as the set of
\* (tagName, historianItemId, sourceItemId, oldestTimeStamp, latestTimeStamp)
\* tuples of the data array, whichever the format, with an absent, a null and
\* an empty field read back alike.
C5_ReadBackSameTuples ==
    \A p \in Procs :
        Saved(p) => ReadBack(fmt[p], fs[ofile[p]].text) = Tuples(data[p])

\* No field of a record of d holds a newline.
NoNewlineFields(d) ==
    \A i \in 1..Len(d[2]) : \A j \in 1..5 : \A k \in 1..Len(TupleOf(d[2][i])[j]) :
        TupleOf(d[2][i])[j][k] \notin {"\n", "\r", "\r\n"}

C7_JsonRoundTrip ==
    \A p \in Procs :
        (Saved(p) /\ fmt[p] = "json") => ParseJson(fs[ofile[p]].text) = data[p]

\* C7 witness: a JSON file written from two different records, one of them
\* with a string that needs escaping.
C7_Witness ==
    \E p \in Procs :
        /\ Saved(p) /\ fmt[p] = "json" /\ Len(data[p][2]) = 2
        /\ data[p][2][1] # data[p][2][2]
        /\ data[p][2][2] = Record(<<"T2">>, CtxPartial)

\* The instance that made the last write to a file, and the place of a call
\* in the log of calls.
Writes == {i \in 1..Len(wlog) : wlog[i][2] = "write"}
LastWrite(S) == CHOOSE i \in S : \A j \in S : j <= i
LastWriter == wlog[LastWrite(Writes)][1]
OpenOf(p) == CHOOSE i \in 1..Len(wlog) : wlog[i] = <<p, "open">>
BothDone == \A p \in Procs : pc[p] = "done"
SameFile == \A p, q \in Procs : ofile[p] = ofile[q]
\* The last writer opened the file after every write of the other instance.
LastOpenedAfterOthersWrites ==
    \A i \in Writes : wlog[i][1] # LastWriter => i < OpenOf(LastWriter)

\* C8 (amended): of two instances running concurrently, each file holds the
\* whole output of its instance when they write different files; when they
\* write the same file, it holds the whole output of the instance that wrote
\* last provided that instance opened the file after the other's last write.
C8_LastWriterWinsWhenNotOverlapping ==
    BothDone =>
        IF SameFile
        THEN LastOpenedAfterOthersWrites =>
                 \A p \in Procs : fs[ofile[p]].text = Rendered(LastWriter).text
        ELSE \A p \in Procs : fs[ofile[p]].text = Rendered(p).text

\* C8 witness: both instances wrote the same file one after the other, the
\* second a shorter output than the first.
C8_Witness ==
    /\ BothDone /\ SameFile /\ LastOpenedAfterOthersWrites
    /\ \E p \in Procs : Len(Rendered(p).text) > Len(Rendered(LastWriter).text)

\* C8 (as claimed): when the two instances write the same file, under every
\* interleaving the file ends up holding the whole output of the instance
\* that wrote last.
C8_LastWriterWins ==
    BothDone =>
        IF SameFile
        THEN \A p \in Procs : fs[ofile[p]].text = Rendered(LastWriter).text
        ELSE \A p \in Procs : fs[ofile[p]].text = Rendered(p).text

\* C9 (as claimed): whatever the output_format, the success line is printed
\* only in a run whose formatter was called and wrote the output file, and a
\* run that returns has printed exactly one status line.
C9_SuccessOnlyAfterWrite ==
    \A p \in Procs :
        /\ Printed(p, "Data saved") =>
               /\ FormatterCalled(p)
               /\ fs[ofile[p]].exists
               /\ fs[ofile[p]].text = Rendered(p).text
        /\ pc[p] = "done" => Cardinality({l \in StatusLines : Printed(p, l)}) = 1

\* The requests of p, in the order they were sent.
ReqsOf(p) == SelectSeq(reqs, LAMBDA r : r.proc = p)

\* The requests of p so far are one browseTags and then at most one
\* getTagContext, which carries the list get_tags returned.
RequestShape(p) ==
    /\ Len(ReqsOf(p)) <= 2
    /\ pc[p] # "start" => Len(ReqsOf(p)) >= 1
    /\ Len(ReqsOf(p)) >= 1 => ReqsOf(p)[1].endpoint = "browseTags"
    /\ Len(ReqsOf(p)) = 2 =>
           /\ ReqsOf(p)[2].endpoint = "getTagContext"
           /\ IsArr(tags[p]) /\ tags[p][2] # <<>>
           /\ ReqsOf(p)[2].tags = tags[p]
    /\ pc[p] \in {"got_data", "writing"} \/ FormatterCalled(p) => Len(ReqsOf(p)) = 2

\* C10: a run sends a browseTags request first and then at most one
\* getTagContext request, only after get_tags returned a non-empty list and
\* with exactly that list as its tags; no request follows the getTagContext
\* request or the call of a formatter.
C10_RequestOrder ==
    /\ [](\A p \in Procs : RequestShape(p))
    /\ [][\A p \in Procs :
             (Len(ReqsOf(p)) = 2 \/ FormatterCalled(p)) => reqs' = reqs]_vars

\* C10 witness: a run that sent both requests, the second with a list of two
\* different tags, and wrote its file.
C10_Witness ==
    \E p \in Procs :
        /\ Saved(p) /\ Len(ReqsOf(p)) = 2
        /\ Len(tags[p][2]) = 2 /\ tags[p][2][1] # tags[p][2][2]

====
